---- MODULE Spec2Model ----
(***************************************************************************)
(* A model of VisualpingClient (src/src/client.ts): the session state, the *)
(* two authentication flows, the shared in-flight authentication promise   *)
(* and the callers of ensureAuthenticated.                                 *)
(*                                                                         *)
(* Granularity.  JavaScript runs one job at a time; a job runs from a      *)
(* resumption point to the next await.  Every action below is one such     *)
(* job (or several consecutive jobs that touch no shared field).  Jobs of  *)
(* the microtask queue run before the event loop takes the next macrotask, *)
(* so the arrival of a fetch result and the advance of the clock are       *)
(* enabled only when no microtask of the client is pending.                *)
(*                                                                         *)
(* Promises.  ops holds the promises of the closures that something still  *)
(* waits for or can reach: the authInFlight field, or a call suspended on  *)
(* one.  A promise is named by a number that no other live promise has;    *)
(* a call that resolved keeps only the outcome it resolved with.           *)
(*                                                                         *)
(* The clock counts seconds: 29 days in milliseconds do not fit the        *)
(* 32-bit integers of the model checker.  All the values compared by the   *)
(* code are multiples of a second in the model.                            *)
(***************************************************************************)
EXTENDS Integers, Sequences, FiniteSets, TLC

\* ------------------------------------------------------------------ bounds

\* The tasks that call into the client.
NumCallers == 2
\* The number of times the clock advances.
MaxTicks == 2
\* The largest value of the retries parameter of authenticatedRequest.
MaxRetries == 2

Callers == 1..NumCallers

\* --------------------------------------------------------------- constants

SECOND == 1
MINUTE == 60 * SECOND
HOUR == 60 * MINUTE
DAY == 24 * HOUR
ID_TOKEN_REFRESH == 23 * HOUR
REFRESH_TOKEN_REFRESH == 29 * DAY

\* JavaScript null for the token fields, and undefined for an error's status.
Null == "<null>"
NoStatus == 0
\* authInFlight = null.
NoPromise == 0
\* A Date field that is null.  A Date is its time value (Dates are never
\* mutated by the client, only replaced).
NoDate == -1

email == "e"
password == "p"
TokenUrl == "https://api.visualping.io/v2/token"

\* The id_token and refresh_token values a token response may carry.
IdTokens == {"", "id_a"}
RefreshTokens == {"rt_a", "rt_b"}

\* How far the clock may advance in one step.
Jumps == {SECOND, ID_TOKEN_REFRESH, REFRESH_TOKEN_REFRESH - SECOND}

VARIABLES
  idToken,                  \* this.idToken
  refreshToken,             \* this.refreshToken
  lastIdTokenRefresh,       \* this.lastIdTokenRefresh
  lastRefreshTokenRefresh,  \* this.lastRefreshTokenRefresh
  authInFlight,             \* this.authInFlight: NoPromise or the operation's number
  ops,                      \* the live operations (closures of ensureAuthenticated), by number
  pc,                       \* each caller: "idle", or "awaiting" (suspended in ensureAuthenticated)
  callOp,                   \* each caller: the operation whose promise its call awaits
  ret,                      \* each caller: the outcome its last call resolved with
  now,                      \* the clock (new Date())
  ticks,                    \* how many times the clock advanced
  req,                      \* each caller: its call of authenticatedRequest
  bulk                      \* the call of getAllJobs or pauseJobs under way

vars == <<idToken, refreshToken, lastIdTokenRefresh, lastRefreshTokenRefresh,
          authInFlight, ops, pc, callOp, ret, now, ticks, req, bulk>>

session == [idToken |-> idToken, refreshToken |-> refreshToken,
            lastIdTokenRefresh |-> lastIdTokenRefresh,
            lastRefreshTokenRefresh |-> lastRefreshTokenRefresh]

\* ---------------------------------------------------------------- transport

\* What fetch can do with a call to the token endpoint.
TokenFetchEvents(flow) ==
  {[kind |-> "reject"],
   [kind |-> "response", status |-> 401, json |-> TRUE,
    body |-> [message |-> "unauthorized"]]}
  \cup (IF flow = "PASSWORD"
        THEN {[kind |-> "response", status |-> 200, json |-> TRUE,
               body |-> [id_token |-> i, refresh_token |-> r]] : i \in IdTokens, r \in RefreshTokens}
        ELSE {[kind |-> "response", status |-> 200, json |-> TRUE,
               body |-> [id_token |-> i]] : i \in IdTokens})

ResponseOk(status) == status >= 200 /\ status <= 299

\* The error slot of an outcome that is not an error.  (An error record holds
\* the error's name, its status, NoStatus for an error without one, its
\* message, and its payload as a sequence of at most one value.)
NoError == [name |-> "", status |-> NoStatus, message |-> "", payload |-> <<>>]

\* new VisualpingApiError(status, message, payload) (error.ts 5-10).
VisualpingApiError(status, message, payload) ==
  [name |-> "VisualpingApiError", status |-> status,
   message |-> "Visualping API Error (" \o ToString(status) \o "): " \o message,
   payload |-> payload]

\* An error that is not a VisualpingApiError: it has no status field.
PlainError(name, message) ==
  [name |-> name, status |-> NoStatus, message |-> message, payload |-> <<>>]

\* JSON.stringify of an object whose members are strings.  (A record keeps no
\* order of its keys; the payloads that reach this operator have one member.)
RECURSIVE JSONMembers(_, _)
JSONMembers(payload, keys) ==
  IF keys = {} THEN ""
  ELSE LET k == CHOOSE x \in keys : TRUE
           rest == keys \ {k}
       IN "\"" \o k \o "\":\"" \o payload[k] \o "\""
          \o (IF rest = {} THEN "" ELSE "," \o JSONMembers(payload, rest))

JSONStringify(payload) == "{" \o JSONMembers(payload, DOMAIN payload) \o "}"

\* Faulty variant: the code of the payload is preferred to its message.
PayloadMessage_CodeFirst(payload) ==
  IF "code" \in DOMAIN payload THEN payload.code
  ELSE IF "message" \in DOMAIN payload THEN payload.message
  ELSE JSONStringify(payload)

\* payload?.message ?? payload?.code ?? JSON.stringify(payload) (client.ts 135-136).
PayloadMessage(payload) ==
  IF "message" \in DOMAIN payload THEN payload.message
  ELSE IF "code" \in DOMAIN payload THEN payload.code
  ELSE JSONStringify(payload)

RequestTimeout_Rethrown == PlainError("AbortError", "This operation was aborted")

\* The error baseRequest throws for an AbortError (client.ts 142-144).
RequestTimeout == VisualpingApiError(408, "Request timeout", <<>>)

\* baseRequest after its fetch: the payload it returns or the error it throws.
\* An event is what fetch and the response did: kind "reject", fetch threw;
\* kind "abort", the abort signal fired while fetch was pending; kind
\* "response" with the status, json (whether response.json() parses the body),
\* body (the parsed value), and for a body that does not parse, text (whether
\* response.text() can still be read after json() consumed the body), raw (the
\* text) and statusText.
baseRequest(ev) ==
  CASE ev.kind = "reject" -> [ok |-> FALSE, error |-> PlainError("TypeError", "fetch failed")]
    [] ev.kind = "abort" -> [ok |-> FALSE, error |-> RequestTimeout]
    [] ev.kind = "response" /\ ~ResponseOk(ev.status) ->
         IF ev.json
         THEN [ok |-> FALSE,
               error |-> VisualpingApiError(ev.status, PayloadMessage(ev.body), <<ev.body>>)]
         ELSE IF ev.text
         THEN [ok |-> FALSE,
               error |-> VisualpingApiError(ev.status,
                           IF ev.raw # "" THEN ev.raw ELSE ev.statusText, <<>>)]
         ELSE [ok |-> FALSE, error |-> PlainError("TypeError", "Body is unusable")]
    [] ev.kind = "response" /\ ResponseOk(ev.status) /\ ~ev.json ->
         [ok |-> FALSE, error |-> PlainError("SyntaxError", "Unexpected token")]
    [] OTHER -> [ok |-> TRUE, error |-> NoError, value |-> ev.body]

\* The headers baseRequest sends: the default, overridden by the caller's.
baseRequestHeaders(h) == h @@ ("Content-Type" :> "application/json")

\* ------------------------------------------------------------ session state

isRefreshTokenValid_NoAge ==
  refreshToken # Null /\ lastRefreshTokenRefresh # NoDate

isRefreshTokenValid ==
  IF refreshToken = Null THEN FALSE
  ELSE IF lastRefreshTokenRefresh = NoDate THEN FALSE
  ELSE now - lastRefreshTokenRefresh < REFRESH_TOKEN_REFRESH

\* Faulty variant: an access token of exactly 23 hours still counts as valid.
isIdTokenValid_Inclusive ==
  IF idToken = Null THEN FALSE
  ELSE IF lastIdTokenRefresh = NoDate THEN FALSE
  ELSE now - lastIdTokenRefresh <= ID_TOKEN_REFRESH

isIdTokenValid ==
  IF idToken = Null THEN FALSE
  ELSE IF lastIdTokenRefresh = NoDate THEN FALSE
  ELSE now - lastIdTokenRefresh < ID_TOKEN_REFRESH

\* ------------------------------------------------------------------- jobs

\* A microtask of the client is pending: a closure resumes after its flow
\* returned, a creator resumes after its operation settled, or a joiner resumes.
\* (An operation record holds: creator, the call that started it; flow, the
\* branch its closure took; phase, "fetch" while its fetch is in flight,
\* "flowReturned" once the flow stored the tokens, "settled" once its promise
\* is fulfilled or rejected; result, the settled outcome; sent, the fetch calls
\* it made; response, the payload its flow received; cleared, whether its
\* creator ran the finally block; pre and t0, the session state and the clock
\* when the closure started.)
MicrotaskPending ==
  \/ \E k \in DOMAIN ops : ops[k].phase = "flowReturned"
  \/ \E k \in DOMAIN ops : ops[k].phase = "settled" /\ ~ops[k].cleared
  \/ \E c \in Callers : pc[c] = "awaiting" /\ ops[callOp[c]].phase = "settled"
  \/ \E c \in Callers : pc[c] = "idle" /\ req[c].phase = "auth"
  \/ \E c \in Callers : bulk.phase = "waiting" /\ req[c].phase = "done"

\* A caller that has not called authenticatedRequest.  (A request record holds:
\* phase, "auth" while the call awaits ensureAuthenticated, "fetch" while a
\* fetch is pending, "body" while the body of a response is read, "backoff"
\* during the delay before a retry, "done" once the call returned or threw;
\* options and retries, its arguments; headers, the headers it built; attempt,
\* the local counter; sent, the calls fetch received; errors, the errors its
\* catch block saw; fetched, how each fetch ended, "response", "reject" or
\* "abort"; waits, the delays it took, in milliseconds; timer, whether
\* the timeout of the pending baseRequest is armed; resp, the response being
\* read; authCalls, its calls of ensureAuthenticated; result, its outcome.)
NoRequest ==
  [phase |-> "idle", options |-> [headers |-> <<>>], retries |-> 0, headers |-> <<>>,
   attempt |-> 0, sent |-> <<>>, errors |-> <<>>, fetched |-> <<>>, waits |-> <<>>,
   timer |-> FALSE,
   resp |-> <<>>, authCalls |-> 0, result |-> [ok |-> TRUE, error |-> NoError]]

\* No call of getAllJobs or pauseJobs.  (The record of such a call holds: op,
\* the method; phase, "waiting" while a call of getJobs or updateJob is
\* awaited, "done" once the method returned or threw; pageIndex, totalPages
\* and out, the locals of getAllJobs; jobIds, the argument of pauseJobs, and
\* next, the position of its loop; calls, the page index or job id of every
\* call of getJobs or updateJob; pages, the payloads those calls returned;
\* paused, the jobs the server has paused; result, the outcome.)
NoBulk ==
  [op |-> "none", phase |-> "idle", pageIndex |-> 0, totalPages |-> 1, out |-> <<>>,
   jobIds |-> <<>>, next |-> 1, calls |-> <<>>, pages |-> <<>>, paused |-> {},
   result |-> [ok |-> TRUE, error |-> NoError]]

Init ==
  /\ bulk = NoBulk
  /\ idToken = Null
  /\ refreshToken = Null
  /\ lastIdTokenRefresh = NoDate
  /\ lastRefreshTokenRefresh = NoDate
  /\ authInFlight = NoPromise
  /\ ops = <<>>
  /\ pc = [c \in Callers |-> "idle"]
  /\ callOp = [c \in Callers |-> NoPromise]
  /\ ret = [c \in Callers |-> [ok |-> TRUE, error |-> NoError]]
  /\ now = 0
  /\ ticks = 0
  /\ req = [c \in Callers |-> NoRequest]

\* The request passwordAuthFlow hands to baseRequest, as fetch receives it.
passwordAuthFlowRequest ==
  [url |-> TokenUrl, method |-> "POST",
   body |-> [method |-> "PASSWORD", email |-> email, password |-> password],
   headers |-> baseRequestHeaders(<<>>)]

\* The request refreshTokenAuthFlow hands to baseRequest, as fetch receives it.
refreshTokenAuthFlowRequest ==
  [url |-> TokenUrl, method |-> "POST",
   body |-> [method |-> "REFRESH_TOKEN", refreshToken |-> refreshToken],
   headers |-> baseRequestHeaders(<<>>)]

\* The flow the closure of ensureAuthenticated chooses.
ChooseFlow_IdTokenFirst ==
  IF ~isIdTokenValid THEN "REFRESH_TOKEN"
  ELSE IF ~isRefreshTokenValid THEN "PASSWORD"
  ELSE "NONE"

ChooseFlow_AlwaysRenews ==
  IF ~isRefreshTokenValid THEN "PASSWORD" ELSE "REFRESH_TOKEN"

ChooseFlow ==
  IF ~isRefreshTokenValid THEN "PASSWORD"
  ELSE IF ~isIdTokenValid THEN "REFRESH_TOKEN"
  ELSE "NONE"

\* The fetch calls a closure that chose `flow` makes before it suspends.
FlowRequests(flow) ==
  CASE flow = "PASSWORD" -> <<passwordAuthFlowRequest>>
    [] flow = "REFRESH_TOKEN" -> <<refreshTokenAuthFlowRequest>>
    [] OTHER -> <<>>

\* Faulty variant: the call never looks at the marker.
FindsInFlight_Never == FALSE

\* Whether a call finds an operation to await instead of starting one.
FindsInFlight == authInFlight # NoPromise

\* The operations of o still referenced when the marker is m and caller c resumes.
Referenced(o, m, c) ==
  [j \in {i \in DOMAIN o : i = m \/ \E d \in Callers \ {c} : pc[d] = "awaiting" /\ callOp[d] = i}
     |-> o[j]]

\* The name of a promise created now.
NewPromise == CHOOSE k \in 1..(NumCallers + 1) :
                k \notin DOMAIN ops /\ \A j \in 1..(k - 1) : j \in DOMAIN ops

\* ensureAuthenticated called by c, up to its first suspension: it returns the
\* promise in flight, or starts the closure (which runs up to its fetch, or to
\* its end when both tokens are valid), stores its promise and awaits it.
ensureAuthenticated(c) ==
  /\ pc[c] = "idle"
  /\ pc' = [pc EXCEPT ![c] = "awaiting"]
  /\ ret' = [ret EXCEPT ![c] = [ok |-> TRUE, error |-> NoError]]
  /\ IF FindsInFlight
     THEN /\ callOp' = [callOp EXCEPT ![c] = authInFlight]
          /\ UNCHANGED <<authInFlight, ops>>
     ELSE LET k == NewPromise
              flow == ChooseFlow
              op == [creator |-> c, flow |-> flow,
                     phase |-> IF flow = "NONE" THEN "settled" ELSE "fetch",
                     result |-> [ok |-> TRUE, error |-> NoError],
                     sent |-> FlowRequests(flow), response |-> <<>>,
                     cleared |-> FALSE, pre |-> session, t0 |-> now]
          IN /\ ops' = [j \in DOMAIN ops \cup {k} |-> IF j = k THEN op ELSE ops[j]]
             /\ authInFlight' = k
             /\ callOp' = [callOp EXCEPT ![c] = k]
  /\ UNCHANGED <<idToken, refreshToken, lastIdTokenRefresh, lastRefreshTokenRefresh,
                 now, ticks>>

\* The token assignments of the password flow (client.ts 216-217).
passwordAuthFlowAssign(v) ==
  /\ idToken' = v.id_token
  /\ refreshToken' = v.refresh_token

\* The token assignment of the refresh-token flow (client.ts 232).
refreshTokenAuthFlowAssign(v) ==
  /\ idToken' = v.id_token
  /\ UNCHANGED refreshToken

\* Faulty variant: a failed flow drops the access token it could not renew.
FlowThrows_DropsIdToken == idToken' = Null /\ UNCHANGED refreshToken

\* Faulty variant: a failed flow forgets the renewal token, so that the next
\* call falls back to the password flow.
FlowThrows_DropsRefreshToken == refreshToken' = Null /\ UNCHANGED idToken

\* What a flow whose baseRequest threw does to the tokens: the throw leaves the
\* flow before its assignments (client.ts 204-214, 221-230).
FlowThrows == UNCHANGED <<idToken, refreshToken>>

\* The fetch of operation k's flow ends with ev: baseRequest returns or throws,
\* and the flow (passwordAuthFlow / refreshTokenAuthFlow) runs to its end: on a
\* payload it stores the tokens and returns to the closure, on an error it
\* rejects, which rejects the closure.
FetchSettles(k, ev) ==
  LET r == baseRequest(ev)
  IN /\ ~MicrotaskPending
     /\ ops[k].phase = "fetch"
     /\ IF r.ok
        THEN /\ IF ops[k].flow = "PASSWORD"
                THEN passwordAuthFlowAssign(r.value)
                ELSE refreshTokenAuthFlowAssign(r.value)
             /\ ops' = [ops EXCEPT ![k].phase = "flowReturned", ![k].response = r.value]
        ELSE /\ ops' = [ops EXCEPT ![k].phase = "settled",
                                   ![k].result = [ok |-> FALSE, error |-> r.error]]
             /\ FlowThrows
     /\ UNCHANGED <<lastIdTokenRefresh, lastRefreshTokenRefresh, authInFlight,
                    pc, callOp, ret, now, ticks>>

\* new Date() evaluated by operation k.
newDate(k) == now

\* Faulty variant: both timestamps are written whatever the flow.
ClosureStamps_StampsBoth(k) ==
  /\ lastRefreshTokenRefresh' = newDate(k)
  /\ lastIdTokenRefresh' = newDate(k)

\* Faulty variant: the password branch forgets the renewal timestamp.
ClosureStamps_NoRefreshStamp(k) ==
  /\ lastIdTokenRefresh' = newDate(k)
  /\ UNCHANGED lastRefreshTokenRefresh

\* Faulty variant: the refresh-token branch forgets its timestamp.
ClosureStamps_NoIdStamp(k) ==
  IF ops[k].flow = "PASSWORD"
  THEN /\ lastRefreshTokenRefresh' = newDate(k)
       /\ lastIdTokenRefresh' = newDate(k)
  ELSE UNCHANGED <<lastIdTokenRefresh, lastRefreshTokenRefresh>>

\* The timestamps the closure writes after its flow returned (client.ts 262-263, 269).
ClosureStamps(k) ==
  IF ops[k].flow = "PASSWORD"
  THEN /\ lastRefreshTokenRefresh' = newDate(k)
       /\ lastIdTokenRefresh' = newDate(k)
  ELSE /\ lastIdTokenRefresh' = newDate(k)
       /\ UNCHANGED lastRefreshTokenRefresh

\* The closure of operation k resumes after `await this.<flow>()`: it writes the
\* timestamps and returns, which fulfils the promise in authInFlight.
ClosureResumes(k) ==
  /\ ops[k].phase = "flowReturned"
  /\ ClosureStamps(k)
  /\ ops' = [ops EXCEPT ![k].phase = "settled"]
  /\ UNCHANGED <<idToken, refreshToken, authInFlight, pc, callOp, ret, now, ticks>>

\* Faulty variant: the finally block leaves the settled promise in place.
FinallyMarker_Keeps(k) == k

\* What the finally block of ensureAuthenticated stores in authInFlight.
FinallyMarker(k) == NoPromise

\* The call that started operation k resumes after `await this.authInFlight`:
\* the finally block clears the marker, and the call returns or rethrows.
CreatorResumes(k) ==
  LET c == ops[k].creator
  IN /\ ops[k].phase = "settled"
     /\ ~ops[k].cleared
     /\ authInFlight' = FinallyMarker(k)
     /\ ops' = Referenced([ops EXCEPT ![k].cleared = TRUE], FinallyMarker(k), c)
     /\ pc' = [pc EXCEPT ![c] = "idle"]
     /\ callOp' = [callOp EXCEPT ![c] = NoPromise]
     /\ ret' = [ret EXCEPT ![c] = ops[k].result]
     /\ UNCHANGED <<idToken, refreshToken, lastIdTokenRefresh, lastRefreshTokenRefresh,
                    now, ticks>>

\* Faulty variant: a joining call resolves without the operation's error.
JoinedOutcome_Fulfilled(k) == [ok |-> TRUE, error |-> NoError]

\* The outcome a call that returned the promise of operation k resolves with.
JoinedOutcome(k) == ops[k].result

\* Faulty variant: a joining call runs the finally block as well.
JoinerResumes_Clears(c) ==
  LET k == callOp[c]
  IN /\ pc[c] = "awaiting"
     /\ ops[k].phase = "settled"
     /\ ops[k].cleared
     /\ pc' = [pc EXCEPT ![c] = "idle"]
     /\ callOp' = [callOp EXCEPT ![c] = NoPromise]
     /\ ret' = [ret EXCEPT ![c] = JoinedOutcome(k)]
     /\ authInFlight' = NoPromise
     /\ ops' = Referenced(ops, NoPromise, c)
     /\ UNCHANGED <<idToken, refreshToken, lastIdTokenRefresh, lastRefreshTokenRefresh,
                    now, ticks>>

\* A call that returned the promise in flight resolves with that promise.  Its
\* reaction is registered on the promise after the creator's (the creator awaits
\* in the job that creates the promise), so it runs after the creator resumed.
JoinerResumes(c) ==
  LET k == callOp[c]
  IN /\ pc[c] = "awaiting"
     /\ ops[k].phase = "settled"
     /\ ops[k].cleared
     /\ pc' = [pc EXCEPT ![c] = "idle"]
     /\ callOp' = [callOp EXCEPT ![c] = NoPromise]
     /\ ret' = [ret EXCEPT ![c] = JoinedOutcome(k)]
     /\ ops' = Referenced(ops, authInFlight, c)
     /\ UNCHANGED <<idToken, refreshToken, lastIdTokenRefresh, lastRefreshTokenRefresh,
                    authInFlight, now, ticks>>

\* The clock advances by d while the client waits (for a response, or idle).
Tick(d) ==
  /\ ~MicrotaskPending
  /\ ticks < MaxTicks
  /\ now' = now + d
  /\ ticks' = ticks + 1
  /\ UNCHANGED <<idToken, refreshToken, lastIdTokenRefresh, lastRefreshTokenRefresh,
                 authInFlight, ops, pc, callOp, ret>>

\* -------------------------------------------------- authenticatedRequest

\* The endpoint of an API operation, and the options its caller passes.
Endpoint == "https://job.api.visualping.io/v2/jobs"
CallerHeaders ==
  {<<>>,
   "X-Test" :> "123",
   ("Content-Type" :> "text/plain") @@ ("Authorization" :> "Basic Zm9v")}
RequestOptions == {[headers |-> h] : h \in CallerHeaders}

\* The default of the retries parameter.
DefaultRetries == 2

\* The bodies a success response may carry.
Payloads == {[page |-> "a"], [page |-> "b"]}

\* What fetch can do with a call to an API endpoint, the abort of the timeout
\* apart (TimerFires).
TargetFetchEvents ==
  {[kind |-> "reject"]}
  \cup {[kind |-> "response", status |-> 200, json |-> TRUE, body |-> b] : b \in Payloads}
  \cup {[kind |-> "response", status |-> 200, json |-> FALSE]}
  \cup {[kind |-> "response", status |-> st, json |-> TRUE,
          body |-> [message |-> "refused"]] : st \in {403, 429, 500}}
  \cup {[kind |-> "response", status |-> 400, json |-> TRUE, body |-> b] :
          b \in {[code |-> "E_INPUT"], [detail |-> "bad url"],
                 [message |-> "invalid", code |-> "E_INPUT"]}}
  \cup {[kind |-> "response", status |-> 404, json |-> FALSE, text |-> t,
          raw |-> r, statusText |-> "Not Found"] :
          t \in BOOLEAN, r \in {"<html>gone</html>", ""}}

\* Faulty variant: the caller's headers are spread last.
authenticatedRequestHeaders_CallerLast(h) ==
  h @@ (IF idToken # Null /\ idToken # ""
        THEN "Authorization" :> ("Bearer " \o idToken)
        ELSE <<>>)
    @@ ("Content-Type" :> "application/json")

\* The headers authenticatedRequest builds (client.ts 161-165).
authenticatedRequestHeaders(h) ==
  (IF idToken # Null /\ idToken # ""
   THEN "Authorization" :> ("Bearer " \o idToken)
   ELSE <<>>)
  @@ h @@ ("Content-Type" :> "application/json")

\* Faulty variant: the exponent is the number of the retry, not one less.
backoffMs_FromAttempt(n) == 200 * 2 ^ (n + 1)

\* const backoffMs = (n) => 200 * 2 ** n.
backoffMs(n) == 200 * 2 ^ n

\* const status = err instanceof VisualpingApiError ? err.status : undefined.
StatusOf(err) == IF err.name = "VisualpingApiError" THEN err.status ELSE NoStatus

\* Faulty variant: a 408 is retried as well.
isTransient_With408(status) ==
  status \in {408, 429} \/ (status # NoStatus /\ status >= 500 /\ status <= 599)

isTransient(status) ==
  status = 429 \/ (status # NoStatus /\ status >= 500 /\ status <= 599)

isNetworkError_Never(status) == FALSE

isNetworkError(status) == status = NoStatus

\* Faulty variants: every error is retried while retries remain; the last retry
\* is not taken.
GivesUp_OnlyExhausted(attempt, retries, status) == attempt > retries

GivesUp_OffByOne(attempt, retries, status) ==
  attempt >= retries \/ (~isTransient(status) /\ ~isNetworkError(status))

\* attempt > retries || (!isTransient && !isNetworkError): the catch block gives up.
GivesUp(attempt, retries, status) ==
  attempt > retries \/ (~isTransient(status) /\ ~isNetworkError(status))

\* Faulty variant: the headers are built anew for every call.
Send_Rederives(rq) ==
  [rq EXCEPT !.phase = "fetch", !.timer = TRUE, !.resp = <<>>,
             !.sent = Append(rq.sent,
                             [url |-> Endpoint,
                              headers |-> baseRequestHeaders(
                                            authenticatedRequestHeaders(rq.options.headers))])]

\* The call of baseRequest in the loop: the timeout is armed and fetch is called
\* with the headers built before the loop (client.ts 113-121, 173).
Send(rq) ==
  [rq EXCEPT !.phase = "fetch", !.timer = TRUE, !.resp = <<>>,
             !.sent = Append(rq.sent, [url |-> Endpoint,
                                       headers |-> baseRequestHeaders(rq.headers)])]

\* Faulty variant: the loop calls baseRequest again without the delay.
Catch_SkipsBackoff(rq, err) ==
  LET attempt == rq.attempt + 1
      caught == [rq EXCEPT !.attempt = attempt, !.errors = Append(rq.errors, err),
                           !.timer = FALSE, !.resp = <<>>]
  IN IF GivesUp(attempt, rq.retries, StatusOf(err))
     THEN [caught EXCEPT !.phase = "done", !.result = [ok |-> FALSE, error |-> err]]
     ELSE Send(caught)

\* The catch block of the loop, entered with the error err (client.ts 174-192).
Catch(rq, err) ==
  LET attempt == rq.attempt + 1
      caught == [rq EXCEPT !.attempt = attempt, !.errors = Append(rq.errors, err),
                           !.timer = FALSE, !.resp = <<>>]
  IN IF GivesUp(attempt, rq.retries, StatusOf(err))
     THEN [caught EXCEPT !.phase = "done", !.result = [ok |-> FALSE, error |-> err]]
     ELSE [caught EXCEPT !.phase = "backoff",
                         !.waits = Append(rq.waits, backoffMs(attempt - 1))]

\* Faulty variant: a request that ends in failure drops the access token.
AuthUnchanged_DropsTokenOnFailure ==
  /\ idToken' = IF \E c \in Callers : req'[c].phase = "done" /\ req[c].phase # "done"
                                        /\ ~req'[c].result.ok
                THEN Null ELSE idToken
  /\ UNCHANGED <<refreshToken, lastIdTokenRefresh, lastRefreshTokenRefresh,
                 authInFlight, ops, pc, callOp, ret, now, ticks>>

AuthUnchanged ==
  UNCHANGED <<idToken, refreshToken, lastIdTokenRefresh, lastRefreshTokenRefresh,
              authInFlight, ops, pc, callOp, ret, now, ticks>>

\* Faulty variant: the call of ensureAuthenticated is not awaited.
authenticatedRequest_NoAwait(c, o, r) ==
  /\ req[c].phase = "idle"
  /\ ensureAuthenticated(c)
  /\ req' = [req EXCEPT ![c] =
               Send([NoRequest EXCEPT !.options = o, !.retries = r, !.authCalls = 1,
                                      !.headers = authenticatedRequestHeaders(o.headers)])]

\* Faulty variant: a request starts only when no other request is under way.
authenticatedRequest_Serialized(c, o, r) ==
  /\ req[c].phase = "idle"
  /\ \A d \in Callers : req[d].phase \in {"idle", "done"}
  /\ ensureAuthenticated(c)
  /\ req' = [req EXCEPT ![c] = [NoRequest EXCEPT !.phase = "auth", !.options = o,
                                                 !.retries = r, !.authCalls = 1]]

\* A caller calls authenticatedRequest(Endpoint, o, r): the call runs into
\* ensureAuthenticated and suspends on its promise (client.ts 154-159).
authenticatedRequest(c, o, r) ==
  /\ req[c].phase = "idle"
  /\ ensureAuthenticated(c)
  /\ req' = [req EXCEPT ![c] = [NoRequest EXCEPT !.phase = "auth", !.options = o,
                                                 !.retries = r, !.authCalls = 1]]

\* Faulty variant: the await of ensureAuthenticated stands inside the try block
\* of the loop.
RequestResumes_CatchesAuth(c) ==
  /\ req[c].phase = "auth" /\ pc[c] = "idle"
  /\ req' = [req EXCEPT ![c] =
               IF ret[c].ok
               THEN Send([req[c] EXCEPT !.headers = authenticatedRequestHeaders(req[c].options.headers)])
               ELSE Catch(req[c], ret[c].error)]
  /\ AuthUnchanged

\* authenticatedRequest resumes after `await this.ensureAuthenticated()`: a
\* rejection leaves the function; otherwise it builds the headers and makes the
\* first call of baseRequest (client.ts 159-173).
RequestResumes(c) ==
  /\ req[c].phase = "auth" /\ pc[c] = "idle"
  /\ req' = [req EXCEPT ![c] =
               IF ret[c].ok
               THEN Send([req[c] EXCEPT !.headers = authenticatedRequestHeaders(req[c].options.headers)])
               ELSE [req[c] EXCEPT !.phase = "done", !.result = ret[c]]]
  /\ AuthUnchanged

\* fetch settles for the pending call of a request: a rejection goes through
\* the catch blocks; a response clears the timeout and the body is read
\* (client.ts 116-139).
TargetFetchSettles(c, ev) ==
  /\ ~MicrotaskPending
  /\ req[c].phase = "fetch"
  /\ req' = [req EXCEPT ![c] =
               IF ev.kind = "response"
               THEN [req[c] EXCEPT !.phase = "body", !.timer = FALSE, !.resp = <<ev>>,
                                   !.fetched = Append(req[c].fetched, ev.kind)]
               ELSE Catch([req[c] EXCEPT !.fetched = Append(req[c].fetched, ev.kind)],
                          baseRequest(ev).error)]
  /\ AuthUnchanged

\* The timeout of a pending baseRequest fires: controller.abort() makes fetch
\* reject with an AbortError (client.ts 113-114, 140-144).
TimerFires(c) ==
  /\ ~MicrotaskPending
  /\ req[c].phase = "fetch" /\ req[c].timer
  /\ req' = [req EXCEPT ![c] =
               Catch([req[c] EXCEPT !.fetched = Append(req[c].fetched, "abort")],
                     baseRequest([kind |-> "abort"]).error)]
  /\ AuthUnchanged

\* The body of the response has been read: response.json() settles, and
\* response.text() after it when it is called (client.ts 124-139).
BodySettles(c) ==
  LET r == baseRequest(req[c].resp[1])
  IN /\ ~MicrotaskPending
     /\ req[c].phase = "body"
     /\ req' = [req EXCEPT ![c] =
                  IF r.ok
                  THEN [req[c] EXCEPT !.phase = "done", !.result = r]
                  ELSE Catch(req[c], r.error)]
     /\ AuthUnchanged

\* Faulty variant: the loop checks the credentials again before a retry.
BackoffElapses_Reauthenticates(c) ==
  /\ ~MicrotaskPending
  /\ req[c].phase = "backoff"
  /\ ensureAuthenticated(c)
  /\ req' = [req EXCEPT ![c] = [req[c] EXCEPT !.phase = "auth",
                                              !.authCalls = req[c].authCalls + 1]]

\* The delay before a retry has elapsed: the loop calls baseRequest again
\* (client.ts 171-173, 193).
BackoffElapses(c) ==
  /\ ~MicrotaskPending
  /\ req[c].phase = "backoff"
  /\ req' = [req EXCEPT ![c] = Send(req[c])]
  /\ AuthUnchanged

\* ------------------------------------------------- getAllJobs and pauseJobs

\* The largest totalPages a response reports.
MaxPages == 3

\* The payloads of a page of jobs, and the lists of jobs a caller pauses.
JobsPages == {[jobs |-> js, totalPages |-> n] : js \in {<<"j1">>, <<"j2", "j3">>},
                                                n \in 0..MaxPages}
JobIdLists == {<<>>, <<123>>, <<456, 123, 789>>}

\* The caller of the extended methods.
BulkCaller == 1

\* A public method calls authenticatedRequest(url, o) with the default number
\* of retries; the record of the caller's previous call, if any, is replaced.
PublicCall(c, o) ==
  /\ req[c].phase \in {"idle", "done"}
  /\ ensureAuthenticated(c)
  /\ req' = [req EXCEPT ![c] = [NoRequest EXCEPT !.phase = "auth", !.options = o,
                                                 !.retries = DefaultRetries,
                                                 !.authCalls = 1]]

\* getJobs({mode: NORMAL, pageIndex, pageSize}) (client.ts 355-374).
getJobs(c, pageIndex) ==
  PublicCall(c, [headers |-> <<>>, method |-> "GET",
                 query |-> [mode |-> "normal", pageIndex |-> pageIndex, pageSize |-> 100]])

\* updateJob(jobId, {active: false}) (client.ts 486-497).
updateJob(c, jobId) ==
  PublicCall(c, [headers |-> <<>>, method |-> "PUT", jobId |-> jobId,
                 body |-> [active |-> FALSE]])

\* Faulty variant: a page that fails ends the loop, and the pages fetched so
\* far are returned.
PageFails_ReturnsPartial(err) ==
  [bulk EXCEPT !.phase = "done", !.result = [ok |-> TRUE, error |-> NoError, value |-> bulk.out]]

\* The await of getJobs rejects: getAllJobs rejects with the same error.
PageFails(err) ==
  [bulk EXCEPT !.phase = "done", !.result = [ok |-> FALSE, error |-> err]]

\* getAllJobs() up to its first await: pageIndex = 0, totalPages = 1, and the
\* first pass of the loop calls getJobs (client.ts 557-569).
getAllJobs(c) ==
  /\ bulk.op = "none"
  /\ getJobs(c, 0)
  /\ bulk' = [NoBulk EXCEPT !.op = "getAllJobs", !.phase = "waiting", !.calls = <<0>>]

\* getAllJobs resumes after `await this.getJobs(...)`: a rejection leaves the
\* method; a page is pushed to out, totalPages and pageIndex are updated, and
\* the loop calls getJobs again or the method returns (client.ts 563-576).
getAllJobsResumes(c) ==
  /\ bulk.op = "getAllJobs" /\ bulk.phase = "waiting"
  /\ req[c].phase = "done"
  /\ IF ~req[c].result.ok
     THEN /\ bulk' = PageFails(req[c].result.error)
          /\ UNCHANGED req /\ AuthUnchanged
     ELSE LET resp == req[c].result.value
              got == [bulk EXCEPT !.out = bulk.out \o resp.jobs,
                                  !.totalPages = resp.totalPages,
                                  !.pageIndex = bulk.pageIndex + 1,
                                  !.pages = Append(bulk.pages, resp)]
          IN IF got.pageIndex < got.totalPages
             THEN /\ getJobs(c, got.pageIndex)
                  /\ bulk' = [got EXCEPT !.calls = Append(bulk.calls, got.pageIndex)]
             ELSE /\ bulk' = [got EXCEPT !.phase = "done",
                                         !.result = [ok |-> TRUE, error |-> NoError,
                                                     value |-> got.out]]
                  /\ UNCHANGED req /\ AuthUnchanged

\* Faulty variant: an update that fails is skipped and the loop goes on.
UpdateFails_Skips(err) == bulk

\* The await of updateJob rejects: pauseJobs rejects with the same error.
UpdateFails(err) ==
  [bulk EXCEPT !.phase = "done", !.result = [ok |-> FALSE, error |-> err]]

\* pauseJobs(jobIds) up to its first await: the first pass of the loop calls
\* updateJob, or the method returns when the list is empty (client.ts 614-624).
pauseJobs(c, jobIds) ==
  /\ bulk.op = "none"
  /\ IF jobIds = <<>>
     THEN /\ bulk' = [NoBulk EXCEPT !.op = "pauseJobs", !.phase = "done"]
          /\ UNCHANGED req /\ AuthUnchanged
     ELSE /\ updateJob(c, jobIds[1])
          /\ bulk' = [NoBulk EXCEPT !.op = "pauseJobs", !.phase = "waiting",
                                    !.jobIds = jobIds, !.calls = <<jobIds[1]>>]

\* pauseJobs resumes after `await this.updateJob(...)`: a rejection leaves the
\* method; otherwise the loop takes the next job or the method returns.
pauseJobsResumes(c) ==
  LET after == IF req[c].result.ok THEN bulk ELSE UpdateFails(req[c].result.error)
      n == bulk.next + 1
  IN /\ bulk.op = "pauseJobs" /\ bulk.phase = "waiting"
     /\ req[c].phase = "done"
     /\ IF after.phase = "done"
        THEN /\ bulk' = after
             /\ UNCHANGED req /\ AuthUnchanged
        ELSE IF n <= Len(bulk.jobIds)
        THEN /\ updateJob(c, bulk.jobIds[n])
             /\ bulk' = [bulk EXCEPT !.next = n, !.calls = Append(bulk.calls, bulk.jobIds[n])]
        ELSE /\ bulk' = [bulk EXCEPT !.next = n, !.phase = "done"]
             /\ UNCHANGED req /\ AuthUnchanged

\* What the API answers to the call of a request, other than a failure: a
\* page of jobs, or the updated job.
BulkAnswers(c) ==
  IF "jobId" \in DOMAIN req[c].options
  THEN {[kind |-> "response", status |-> 200, json |-> TRUE,
         body |-> [id |-> req[c].options.jobId, active |-> FALSE]]}
  ELSE {[kind |-> "response", status |-> 200, json |-> TRUE, body |-> b] : b \in JobsPages}

\* The server pauses the job of an update it answers with 200.
ServerApplies(c, ev) ==
  bulk' = IF "jobId" \in DOMAIN req[c].options /\ ev.status = 200
          THEN [bulk EXCEPT !.paused = bulk.paused \cup {req[c].options.jobId}]
          ELSE bulk

\* ------------------------------------------------------------ specifications

\* The callers call ensureAuthenticated directly, any number of times.
Next ==
  \/ \E c \in Callers : ensureAuthenticated(c) /\ UNCHANGED <<req, bulk>>
  \/ \E k \in DOMAIN ops : \E ev \in TokenFetchEvents(ops[k].flow) :
        FetchSettles(k, ev) /\ UNCHANGED <<req, bulk>>
  \/ \E k \in DOMAIN ops : ClosureResumes(k) /\ UNCHANGED <<req, bulk>>
  \/ \E k \in DOMAIN ops : CreatorResumes(k) /\ UNCHANGED <<req, bulk>>
  \/ \E c \in Callers : JoinerResumes(c) /\ UNCHANGED <<req, bulk>>
  \/ \E d \in Jumps : Tick(d) /\ UNCHANGED <<req, bulk>>

Spec == Init /\ [][Next]_vars

\* What fetch can do with a call to the token endpoint in the specifications
\* of authenticatedRequest: a network failure, an overloaded server, or tokens.
RequestTokenEvents(flow) ==
  {[kind |-> "reject"],
   [kind |-> "response", status |-> 503, json |-> TRUE, body |-> [message |-> "unavailable"]]}
  \cup (IF flow = "PASSWORD"
        THEN {[kind |-> "response", status |-> 200, json |-> TRUE,
               body |-> [id_token |-> i, refresh_token |-> "rt_a"]] : i \in IdTokens}
        ELSE {[kind |-> "response", status |-> 200, json |-> TRUE,
               body |-> [id_token |-> i]] : i \in IdTokens})

\* The steps of an authentication operation and its creator, as part of a specification of authenticatedRequest.
AuthSteps ==
  \/ \E k \in DOMAIN ops : \E ev \in RequestTokenEvents(ops[k].flow) :
        FetchSettles(k, ev) /\ UNCHANGED <<req, bulk>>
  \/ \E k \in DOMAIN ops : ClosureResumes(k) /\ UNCHANGED <<req, bulk>>
  \/ \E k \in DOMAIN ops : CreatorResumes(k) /\ UNCHANGED <<req, bulk>>

\* Every caller makes one request with the default number of retries,
\* concurrently with the others; the API answers with a payload, and the calls
\* of the first caller may also be answered with a 500 or a 403.
RequestNext ==
  \/ \E c \in Callers : \E o \in {x \in RequestOptions : DOMAIN x.headers = {}} :
        authenticatedRequest(c, o, DefaultRetries) /\ UNCHANGED bulk
  \/ AuthSteps
  \/ \E c \in Callers : JoinerResumes(c) /\ UNCHANGED <<req, bulk>>
  \/ \E c \in Callers : RequestResumes(c) /\ UNCHANGED bulk
  \/ \E c \in Callers :
        \E ev \in {e \in TargetFetchEvents :
                     e.kind = "response" /\ e.status = 200 /\ e.json /\ e.body.page = "a"} :
          TargetFetchSettles(c, ev) /\ UNCHANGED bulk
  \/ \E c \in {1} :
        \E ev \in {e \in TargetFetchEvents : e.kind = "response" /\ e.status \in {403, 500}} :
          TargetFetchSettles(c, ev) /\ UNCHANGED bulk
  \/ \E c \in Callers : BodySettles(c) /\ UNCHANGED bulk
  \/ \E c \in Callers : BackoffElapses(c) /\ UNCHANGED bulk
  \/ Tick(ID_TOKEN_REFRESH) /\ UNCHANGED <<req, bulk>>

RequestSpec == Init /\ [][RequestNext]_vars

\* One caller makes one request, with any number of retries up to MaxRetries;
\* fetch and the response do whatever they can.
RetryNext ==
  \/ \E c \in {NumCallers} : \E o \in RequestOptions : \E r \in 0..MaxRetries :
        authenticatedRequest(c, o, r) /\ UNCHANGED bulk
  \/ AuthSteps
  \/ \E c \in Callers : RequestResumes(c) /\ UNCHANGED bulk
  \/ \E c \in Callers : \E ev \in TargetFetchEvents : TargetFetchSettles(c, ev) /\ UNCHANGED bulk
  \/ \E c \in Callers : TimerFires(c) /\ UNCHANGED bulk
  \/ \E c \in Callers : BodySettles(c) /\ UNCHANGED bulk
  \/ \E c \in Callers : BackoffElapses(c) /\ UNCHANGED bulk

RetrySpec == Init /\ [][RetryNext]_vars

\* The same, where every pending step is taken in the end: the event loop runs
\* each job that is ready, each timer fires, and each transport call completes:
\* fetch settles or is aborted by the timeout, and the body is read.
FairRetrySpec ==
  /\ RetrySpec
  /\ WF_vars(AuthSteps)
  /\ \A c \in Callers :
       /\ WF_vars(RequestResumes(c) /\ UNCHANGED bulk)
       /\ WF_vars((TimerFires(c) \/ \E ev \in TargetFetchEvents : TargetFetchSettles(c, ev))
                    /\ UNCHANGED bulk)
       /\ WF_vars(BodySettles(c) /\ UNCHANGED bulk)
       /\ WF_vars(BackoffElapses(c) /\ UNCHANGED bulk)

\* A caller calls getAllJobs or pauseJobs once; each call of the API is
\* answered with a payload, a 500 or a 403.
BulkNext ==
  \/ getAllJobs(BulkCaller)
  \/ \E ids \in JobIdLists : pauseJobs(BulkCaller, ids)
  \/ getAllJobsResumes(BulkCaller)
  \/ pauseJobsResumes(BulkCaller)
  \/ AuthSteps
  \/ \E c \in Callers : RequestResumes(c) /\ UNCHANGED bulk
  \/ \E c \in Callers :
        \E ev \in BulkAnswers(c) \cup {e \in TargetFetchEvents :
                                         e.kind = "response" /\ e.status \in {403, 500}} :
          TargetFetchSettles(c, ev) /\ ServerApplies(c, ev)
  \/ \E c \in Callers : BodySettles(c) /\ UNCHANGED bulk
  \/ \E c \in Callers : BackoffElapses(c) /\ UNCHANGED bulk

BulkSpec == Init /\ [][BulkNext]_vars

\* ------------------------------------------------------------------ claims

\* The calls suspended in ensureAuthenticated.
Awaiting == {c \in Callers : pc[c] = "awaiting"}

\* Caller c's call resolves in this step.
Resolves(c) == pc[c] = "awaiting" /\ pc'[c] = "idle"

\* Caller c issues a call in this step.
Issues(c) == pc[c] = "idle" /\ pc'[c] = "awaiting"

\* A credential of session state s is valid at time t, as the specification
\* defines it: present, and younger than its time to live.
AccessValidAt(s, t) ==
  /\ s.idToken # Null
  /\ s.lastIdTokenRefresh # NoDate
  /\ t - s.lastIdTokenRefresh < 23 * 60 * 60
RenewalValidAt(s, t) ==
  /\ s.refreshToken # Null
  /\ s.lastRefreshTokenRefresh # NoDate
  /\ t - s.lastRefreshTokenRefresh < 29 * 24 * 60 * 60

\* The authentication fetch calls in flight.
InFlightAuthCalls == {k \in DOMAIN ops : ops[k].phase = "fetch"}

\* C1: at most one authentication (token endpoint) fetch is in flight at any
\* time, and a call that finds no operation in flight installs the marker in
\* the very step that checked it.
C1_AtMostOneAuthCallInFlight ==
  /\ [](Cardinality(InFlightAuthCalls) <= 1)
  /\ [][\A c \in Callers : Issues(c) /\ authInFlight = NoPromise =>
          authInFlight' # NoPromise /\ callOp'[c] = authInFlight']_vars

\* A second call was issued while the first one's fetch is in flight.
C1_Witness ==
  \E k \in DOMAIN ops :
    /\ ops[k].phase = "fetch"
    /\ \E c \in Callers : c # ops[k].creator /\ pc[c] = "awaiting" /\ callOp[c] = k

\* C2: calls that are all issued before any call on their operations resolves
\* await one and the same operation, the one in authInFlight; when the session
\* state was invalid as it started, that operation made exactly one fetch; each
\* of the calls resolves with that operation's outcome, and the session state
\* does not change between the operation's settling and the last of them
\* resolving.
C2_Coalesced ==
  /\ []((\A c \in Awaiting : ~ops[callOp[c]].cleared) =>
          \A c \in Awaiting :
            /\ callOp[c] = authInFlight
            /\ (~RenewalValidAt(ops[callOp[c]].pre, ops[callOp[c]].t0)
                  \/ ~AccessValidAt(ops[callOp[c]].pre, ops[callOp[c]].t0))
               => Len(ops[callOp[c]].sent) = 1 /\ ops[callOp[c]].flow # "NONE")
  /\ [][/\ \A c \in Callers : Resolves(c) => ret'[c] = ops[callOp[c]].result
        /\ (\E k \in DOMAIN ops : ops[k].phase = "settled") => session' = session]_vars

\* The creator of an operation that made a fetch has resolved and a joiner is
\* about to.
C2_Witness ==
  \E k \in DOMAIN ops :
    /\ ops[k].phase = "settled" /\ ops[k].cleared /\ Len(ops[k].sent) = 1
    /\ \E c \in Callers : pc[c] = "awaiting" /\ callOp[c] = k

\* C3: when a call of ensureAuthenticated resolves without error, for its
\* creator as for a joiner, the access token is present and younger than 23
\* hours at that moment.
C3_ValidOnReturn ==
  [][\A c \in Callers : Resolves(c) /\ ret'[c].ok =>
       AccessValidAt(session', now')]_vars

\* Every call has returned without error, the last ones from a refresh-token
\* flow (the access token is younger than the renewal token).
C3_Witness ==
  /\ ops = <<>>
  /\ \A c \in Callers : pc[c] = "idle" /\ ret[c].ok
  /\ idToken # Null
  /\ lastIdTokenRefresh > lastRefreshTokenRefresh

\* C4: when a flow fails, the four session fields are what they were when the
\* operation started, in the step of the failure and for as long as a call
\* awaits the operation, and every call that awaits it resolves with its error.
C4_FailureLeavesSession ==
  /\ [](\A k \in DOMAIN ops :
          ops[k].phase = "settled" /\ ~ops[k].result.ok => session = ops[k].pre)
  /\ [][\A c \in Callers :
          Resolves(c) /\ ~ops[callOp[c]].result.ok =>
            /\ ~ret'[c].ok
            /\ ret'[c].error = ops[callOp[c]].result.error
            /\ session' = ops[callOp[c]].pre]_vars

\* A flow that started with tokens in place has failed; its creator has the
\* error and a joiner is about to get it.
C4_Witness ==
  \E k \in DOMAIN ops :
    /\ ops[k].phase = "settled" /\ ~ops[k].result.ok /\ ops[k].cleared
    /\ ops[k].pre.idToken # Null /\ ops[k].pre.refreshToken # Null
    /\ ~ret[ops[k].creator].ok
    /\ \E c \in Callers : pc[c] = "awaiting" /\ callOp[c] = k

IssuedTogether ==
  /\ (lastIdTokenRefresh # NoDate) <=> (idToken # Null)
  /\ (lastRefreshTokenRefresh # NoDate) <=> (refreshToken # Null)

\* C5, as stated: in every reachable state each timestamp is set exactly when
\* its token is present.
C5_Original == IssuedTogether

\* C5, amended: each timestamp is set exactly when its token is present in every
\* state in which no closure stands between the return of its flow and its
\* timestamp assignments; once the closure has returned, the timestamps of the
\* tokens its flow wrote are not older than the operation.
C5_IssuedTogetherOutsideClosure ==
  /\ (\A k \in DOMAIN ops : ops[k].phase # "flowReturned") => IssuedTogether
  /\ \A k \in DOMAIN ops :
       ops[k].phase = "settled" /\ ops[k].result.ok /\ ops[k].flow # "NONE" =>
         /\ lastIdTokenRefresh >= ops[k].t0
         /\ ops[k].flow = "PASSWORD" => lastRefreshTokenRefresh >= ops[k].t0

\* The first password flow has returned and its closure has written both
\* timestamps.
C5_Witness ==
  \E k \in DOMAIN ops :
    /\ ops[k].phase = "settled" /\ ops[k].result.ok /\ ops[k].flow = "PASSWORD"
    /\ ops[k].pre.idToken = Null /\ ops[k].pre.lastIdTokenRefresh = NoDate
    /\ idToken # Null /\ refreshToken # Null

\* C6: the step that resolves a call, with either outcome, leaves authInFlight
\* off the operation whose outcome it delivers, and no operation whose outcome
\* was delivered is in authInFlight; so a call issued afterwards never awaits
\* such an operation, and one that finds authInFlight empty awaits an operation
\* of its own, started at that moment.
C6_ClearedBeforePropagation ==
  /\ [](\A k \in DOMAIN ops : ops[k].cleared => authInFlight # k)
  /\ [][\A c \in Callers :
          /\ Resolves(c) => authInFlight' # callOp[c]
          /\ Issues(c) =>
                /\ ~ops'[callOp'[c]].cleared
                /\ authInFlight = NoPromise =>
                      /\ ops'[callOp'[c]].creator = c
                      /\ ops'[callOp'[c]].t0 = now
                      /\ ops'[callOp'[c]].result.ok]_vars

\* A call has failed and the next call has started a flow of its own.
C6_Witness ==
  \E c, d \in Callers :
    /\ pc[d] = "idle" /\ ~ret[d].ok
    /\ pc[c] = "awaiting" /\ callOp[c] = authInFlight
    /\ DOMAIN ops = {authInFlight}
    /\ ops[authInFlight].creator = c /\ ops[authInFlight].phase = "fetch"

EmptySession ==
  [idToken |-> Null, refreshToken |-> Null,
   lastIdTokenRefresh |-> NoDate, lastRefreshTokenRefresh |-> NoDate]

SucceededOps == {k \in DOMAIN ops : ops[k].phase = "settled" /\ ops[k].result.ok}

\* C7: an operation started on an empty session sends exactly one request, a
\* POST to the token endpoint with method PASSWORD, the email and the password;
\* once it has succeeded both tokens are the response's and both timestamps lie
\* between the operation's start and the present.
C7_EmptySessionPasswordFlow ==
  \A k \in DOMAIN ops :
    ops[k].pre = EmptySession =>
      /\ Len(ops[k].sent) = 1
      /\ ops[k].sent[1].url = "https://api.visualping.io/v2/token"
      /\ ops[k].sent[1].method = "POST"
      /\ ops[k].sent[1].body = [method |-> "PASSWORD", email |-> email, password |-> password]
      /\ k \in SucceededOps =>
            /\ idToken = ops[k].response.id_token
            /\ refreshToken = ops[k].response.refresh_token
            /\ ops[k].t0 <= lastIdTokenRefresh /\ lastIdTokenRefresh <= now
            /\ ops[k].t0 <= lastRefreshTokenRefresh /\ lastRefreshTokenRefresh <= now

\* The first authentication of a client, started after some time had passed,
\* has succeeded.
C7_Witness ==
  \E k \in SucceededOps :
    /\ ops[k].pre = EmptySession /\ ops[k].t0 > 0
    /\ lastIdTokenRefresh = ops[k].t0 /\ lastRefreshTokenRefresh = ops[k].t0

\* C8: an operation started with the renewal token missing or 29 days old sends
\* one request, of the password flow and not of the refresh-token flow, whether
\* the access token was valid or not; once it has succeeded both tokens are the
\* response's.
C8_StaleRenewalPasswordFlow ==
  \A k \in DOMAIN ops :
    ~RenewalValidAt(ops[k].pre, ops[k].t0) =>
      /\ ops[k].flow = "PASSWORD"
      /\ Len(ops[k].sent) = 1
      /\ ops[k].sent[1].body.method = "PASSWORD"
      /\ k \in SucceededOps =>
            /\ idToken = ops[k].response.id_token
            /\ refreshToken = ops[k].response.refresh_token

\* A password flow that started with a renewal token of 29 days and an access
\* token still valid has replaced the renewal token.
C8_Witness ==
  \E k \in SucceededOps :
    /\ ops[k].pre.refreshToken # Null
    /\ ops[k].t0 - ops[k].pre.lastRefreshTokenRefresh >= 29 * 24 * 60 * 60
    /\ AccessValidAt(ops[k].pre, ops[k].t0)
    /\ refreshToken # ops[k].pre.refreshToken

\* C9: an operation started with a valid renewal token and an access token
\* missing or 23 hours old sends one request, of the refresh-token flow, with
\* the renewal token of that moment; the renewal token and its timestamp stay
\* what they were, and once it has succeeded the access token is the response's
\* and its timestamp is not older than the operation.
C9_RefreshFlowFrame ==
  \A k \in DOMAIN ops :
    RenewalValidAt(ops[k].pre, ops[k].t0) /\ ~AccessValidAt(ops[k].pre, ops[k].t0) =>
      /\ ops[k].flow = "REFRESH_TOKEN"
      /\ Len(ops[k].sent) = 1
      /\ ops[k].sent[1].url = "https://api.visualping.io/v2/token"
      /\ ops[k].sent[1].body = [method |-> "REFRESH_TOKEN", refreshToken |-> ops[k].pre.refreshToken]
      /\ refreshToken = ops[k].pre.refreshToken
      /\ lastRefreshTokenRefresh = ops[k].pre.lastRefreshTokenRefresh
      /\ k \in SucceededOps =>
            /\ idToken = ops[k].response.id_token
            /\ ops[k].t0 <= lastIdTokenRefresh /\ lastIdTokenRefresh <= now

\* A refresh-token flow has succeeded with a new access token, later than it
\* started.
C9_Witness ==
  \E k \in SucceededOps :
    /\ ops[k].flow = "REFRESH_TOKEN"
    /\ idToken # ops[k].pre.idToken
    /\ lastIdTokenRefresh > lastRefreshTokenRefresh
    /\ now > ops[k].t0

\* C10: an operation started with both tokens valid sends no request, and the
\* four session fields keep the values they had, from the step that issues the
\* call to the step that resolves it.
C10_ValidSessionUntouched ==
  /\ [](\A k \in DOMAIN ops :
          RenewalValidAt(ops[k].pre, ops[k].t0) /\ AccessValidAt(ops[k].pre, ops[k].t0) =>
            /\ ops[k].sent = <<>>
            /\ ops[k].flow = "NONE"
            /\ session = ops[k].pre)
  /\ [][\A c \in Callers :
          /\ Issues(c) /\ authInFlight = NoPromise
               /\ RenewalValidAt(session, now) /\ AccessValidAt(session, now) =>
                 session' = session /\ ops'[callOp'[c]].sent = <<>>
          /\ Resolves(c) /\ ops[callOp[c]].flow = "NONE" =>
                 session' = ops[callOp[c]].pre /\ ret'[c].ok]_vars

\* A call made some time after the tokens were issued, both still valid, is
\* about to resolve.
C10_Witness ==
  \E k \in DOMAIN ops :
    /\ ops[k].flow = "NONE" /\ ~ops[k].cleared
    /\ ops[k].t0 > lastIdTokenRefresh /\ lastIdTokenRefresh > lastRefreshTokenRefresh
    /\ pc[ops[k].creator] = "awaiting"

\* ------------------------------------------- claims on authenticatedRequest

\* The request of caller c makes a transport call in this step.
Sends(c) == Len(req'[c].sent) = Len(req[c].sent) + 1

\* C11: a request has made no transport call while its call of
\* ensureAuthenticated is pending, and every transport call of a request is made
\* in a step that finds that call resolved, without error.
C11_AuthResolvedBeforeSend ==
  /\ [](\A c \in Callers :
          /\ pc[c] = "awaiting" => req[c].sent = <<>>
          /\ req[c].sent # <<>> => req[c].authCalls = 1 /\ pc[c] = "idle" /\ ret[c].ok)
  /\ [][\A c \in Callers :
          /\ Len(req'[c].sent) >= Len(req[c].sent)
          /\ Len(req'[c].sent) > Len(req[c].sent) =>
                Sends(c) /\ pc[c] = "idle" /\ ret[c].ok /\ req[c].phase \in {"auth", "backoff"}]_vars

\* One request has a transport call under way while another, issued later,
\* still waits for ensureAuthenticated.
C11_Witness ==
  \E c, d \in Callers :
    /\ req[d].phase = "fetch" /\ Len(req[d].sent) = 1
    /\ req[c].phase = "auth" /\ pc[c] = "awaiting"

\* The call of ensureAuthenticated of request c has failed and the request has
\* resumed.
AuthFailed(c) == req[c].phase \notin {"idle", "auth"} /\ ~ret[c].ok

\* C12: a request whose call of ensureAuthenticated failed is over as soon as it
\* resumes, with that error; it has made no transport call, entered no retry
\* and called ensureAuthenticated once, whatever the kind of the error.
C12_AuthFailureTerminal ==
  /\ [](\A c \in Callers :
          AuthFailed(c) =>
            /\ req[c].phase = "done"
            /\ req[c].result = ret[c]
            /\ req[c].sent = <<>> /\ req[c].attempt = 0 /\ req[c].waits = <<>>
            /\ req[c].authCalls = 1)
  /\ [][\A c \in Callers :
          req[c].phase = "auth" /\ req'[c].phase # "auth" /\ ~ret[c].ok =>
            req'[c].phase = "done" /\ req'[c].result.error = ret[c].error]_vars

\* Two requests have failed on the same authentication, one refused with a 503
\* or a network failure, with retries left.
C12_Witness ==
  \E c, d \in Callers :
    /\ c # d /\ AuthFailed(c) /\ AuthFailed(d)
    /\ req[c].retries = 2
    /\ req[c].result.error.status \in {NoStatus, 503}
    /\ req[c].result.error = req[d].result.error

\* A status that is neither 429, nor in 500..599, nor absent.
TerminalStatus(st) == st # NoStatus /\ st # 429 /\ ~(st >= 500 /\ st <= 599)

\* Attempt i of the request record rq failed with a 429, a 5xx, or without a
\* response.
TransientAttempt(rq, i) ==
  \/ rq.errors[i].status = 429
  \/ rq.errors[i].status >= 500 /\ rq.errors[i].status <= 599
  \/ rq.fetched[i] = "reject"

FailedTransiently(c, i) == TransientAttempt(req[c], i)

\* C13: an attempt that fails with a status that is neither 429, nor 5xx, nor
\* absent is the last of its request: the request is over with that error, and
\* it has made as many transport calls as it had made when the error arrived.
C13_TerminalStatusFails ==
  \A c \in Callers : \A i \in DOMAIN req[c].errors :
    TerminalStatus(req[c].errors[i].status) =>
      /\ i = Len(req[c].errors)
      /\ req[c].phase = "done"
      /\ req[c].result = [ok |-> FALSE, error |-> req[c].errors[i]]
      /\ Len(req[c].sent) = i
      /\ Len(req[c].waits) = i - 1

\* A request has failed on a 403 that followed a 429, with a retry left.
C13_Witness ==
  \E c \in Callers :
    /\ req[c].retries = 2 /\ Len(req[c].errors) = 2
    /\ req[c].errors[1].status = 429 /\ req[c].errors[2].status = 403
    /\ req[c].phase = "done"

\* C14: a request never makes more than retries + 1 transport calls, and one
\* that is over with every attempt failed transiently has made exactly
\* retries + 1 calls and fails with the error of the last of them.
C14_ExhaustedRetries ==
  \A c \in Callers :
    /\ Len(req[c].sent) <= req[c].retries + 1
    /\ ( /\ req[c].phase = "done" /\ req[c].sent # <<>> /\ ~req[c].result.ok
          /\ \A i \in DOMAIN req[c].errors : FailedTransiently(c, i) ) =>
         /\ Len(req[c].sent) = req[c].retries + 1
         /\ Len(req[c].errors) = req[c].retries + 1
         /\ req[c].result.error = req[c].errors[req[c].retries + 1]

\* A request with the largest number of retries has failed on transient errors,
\* the first a 429 and the last a network failure.
C14_Witness ==
  \E c \in Callers :
    /\ req[c].phase = "done" /\ req[c].retries = MaxRetries
    /\ Len(req[c].errors) = MaxRetries + 1
    /\ \A i \in DOMAIN req[c].errors : FailedTransiently(c, i)
    /\ req[c].errors[1].status = 429
    /\ req[c].fetched[MaxRetries + 1] = "reject"
    /\ req[c].result.error # req[c].errors[1]

\* C15: after a transient failure of attempt k <= retries the request waits and
\* makes one more transport call; a request that has returned a payload has
\* made one call more than it saw failures, and the payload is the body of the
\* response to the last call.
C15_RetryThenSuccess ==
  /\ [](\A c \in Callers :
          req[c].phase = "done" /\ req[c].result.ok =>
            /\ Len(req[c].sent) = Len(req[c].errors) + 1
            /\ Len(req[c].errors) <= req[c].retries
            /\ Len(req[c].fetched) = Len(req[c].sent)
            /\ req[c].result.value = req[c].resp[1].body)
  /\ [][\A c \in Callers :
          /\ ( /\ Len(req'[c].errors) = Len(req[c].errors) + 1
                /\ Len(req'[c].errors) <= req[c].retries
                /\ TransientAttempt(req'[c], Len(req'[c].errors)) ) =>
               req'[c].phase = "backoff"
          /\ req[c].phase = "backoff" /\ req'[c] # req[c] =>
               req'[c].phase = "fetch" /\ Sends(c)]_vars

\* A request has returned the payload of its third call, after a 429 and a
\* network failure.
C15_Witness ==
  \E c \in Callers :
    /\ req[c].phase = "done" /\ req[c].result.ok
    /\ Len(req[c].sent) = 3
    /\ req[c].errors[1].status = 429 /\ req[c].fetched[2] = "reject"
    /\ req[c].result.value = [page |-> "b"]

\* Attempt i of request c got a 2xx response whose body did not parse.
ParseFailure(c, i) ==
  /\ req[c].fetched[i] = "response"
  /\ req[c].errors[i].name = "SyntaxError"

\* C16, as stated: an attempt that gets a 2xx response with a malformed body is
\* the only one of its request, which is over with that error.
C16_ParseFailureNotRetried ==
  \A c \in Callers : \A i \in DOMAIN req[c].errors :
    ParseFailure(c, i) =>
      /\ i = 1
      /\ req[c].phase = "done"
      /\ Len(req[c].sent) = 1

\* C17, as stated: an attempt whose fetch was aborted by the timeout fails with
\* an error of status 408 whose message is "Request timeout".
C17_Original ==
  \A c \in Callers : \A i \in DOMAIN req[c].errors :
    req[c].fetched[i] = "abort" =>
      /\ req[c].errors[i].status = 408
      /\ req[c].errors[i].message = "Request timeout"

\* C17, amended: an attempt whose fetch was aborted by the timeout fails with a
\* VisualpingApiError of status 408, without payload, whose message is
\* "Visualping API Error (408): Request timeout", the text "Request timeout"
\* behind the prefix the constructor puts before every message.
C17_TimeoutIs408 ==
  \A c \in Callers : \A i \in DOMAIN req[c].errors :
    req[c].fetched[i] = "abort" =>
      /\ req[c].errors[i].name = "VisualpingApiError"
      /\ req[c].errors[i].status = 408
      /\ req[c].errors[i].message = "Visualping API Error (408): Request timeout"
      /\ req[c].errors[i].payload = <<>>

\* The second call of a request has timed out.
C17_Witness ==
  \E c \in Callers :
    /\ Len(req[c].errors) = 2 /\ req[c].fetched[2] = "abort"
    /\ req[c].result.error = req[c].errors[2]

\* C18, as stated: the timeout covers the whole transport call, so it is armed
\* for as long as the call is pending, while fetch is awaited and while the
\* body of the response is read.
C18_TimeoutCoversCall ==
  \A c \in Callers : req[c].phase \in {"fetch", "body"} => req[c].timer

\* C19, as stated: an attempt that failed with an error without status got no
\* response.
C19_NoStatusNoResponse ==
  \A c \in Callers : \A i \in DOMAIN req[c].errors :
    req[c].errors[i].status = NoStatus => req[c].fetched[i] # "response"

\* C20, as stated: the validity of the credentials is checked before every
\* transport call of a request, so a request has called ensureAuthenticated at
\* least as often as it has called fetch.
C20_Original ==
  \A c \in Callers : Len(req[c].sent) <= req[c].authCalls

\* C20, amended: a request checks the credentials once, before its first
\* transport call; a retry follows the backoff without a call of
\* ensureAuthenticated, touches neither the session state nor the
\* authentication in flight, and sends the headers of the first call.
C20_AuthCheckedOnce ==
  /\ [](\A c \in Callers :
          /\ req[c].phase # "idle" => req[c].authCalls = 1
          /\ \A i \in DOMAIN req[c].sent : req[c].sent[i].headers = req[c].sent[1].headers)
  /\ [][\A c \in Callers :
          Sends(c) /\ req[c].sent # <<>> =>
            /\ req[c].phase = "backoff"
            /\ pc' = pc /\ ops' = ops /\ authInFlight' = authInFlight
            /\ session' = session]_vars

\* A retry is under way although the access token has expired since the
\* request checked it.
C20_Witness ==
  \E c \in Callers :
    /\ req[c].phase = "fetch" /\ Len(req[c].sent) >= 2
    /\ idToken # Null /\ now - lastIdTokenRefresh >= 23 * 60 * 60

\* ------------------------------------------------------------------ C21..C30

\* C21: within one call of authenticatedRequest, ensureAuthenticated runs once,
\* before the first attempt: once the call is past it, no step starts or ends
\* an authentication call of that caller.  The first attempt carries the
\* Authorization built from the access token stored when that call resolved,
\* and every later attempt carries the same Authorization, whatever the access
\* token is by then.
C21_AuthorizationFixedAtAuth ==
  [][\A c \in Callers :
       /\ req[c].phase \notin {"idle", "auth"} => pc'[c] = pc[c] /\ ret'[c] = ret[c]
       /\ Sends(c) /\ req[c].sent = <<>> /\ idToken \notin {Null, ""} =>
            /\ req[c].phase = "auth"
            /\ "Authorization" \in DOMAIN req'[c].sent[1].headers
            /\ req'[c].sent[1].headers["Authorization"] = "Bearer " \o idToken
       /\ Sends(c) /\ req[c].sent # <<>> =>
            LET first == req[c].sent[1].headers
                retry == req'[c].sent[Len(req'[c].sent)].headers
            IN /\ ("Authorization" \in DOMAIN retry) = ("Authorization" \in DOMAIN first)
               /\ "Authorization" \in DOMAIN first =>
                    retry["Authorization"] = first["Authorization"]]_vars

\* A retry has been sent with the access token the request saw when it
\* authenticated, after another request's authentication replaced that token.
C21_Witness ==
  \E c \in Callers :
    LET n == Len(req[c].sent)
    IN /\ n >= 2
       /\ "Authorization" \in DOMAIN req[c].sent[n].headers
       /\ idToken # Null
       /\ req[c].sent[n].headers["Authorization"] # "Bearer " \o idToken

\* C22: every transport call made for an authenticated request carries the
\* header Authorization: Bearer <the access token stored at the time of the
\* call>, and no call of the primary or secondary authentication flow carries
\* an Authorization header, whatever the session state.
C22_BearerOnEveryCall ==
  /\ [](\A k \in DOMAIN ops : \A i \in DOMAIN ops[k].sent :
          "Authorization" \notin DOMAIN ops[k].sent[i].headers)
  /\ [][\A c \in Callers :
          Sends(c) =>
            LET h == req'[c].sent[Len(req'[c].sent)].headers
            IN /\ idToken # Null
               /\ "Authorization" \in DOMAIN h
               /\ h["Authorization"] = "Bearer " \o idToken]_vars

BodyRead(c) == req[c].resp[1]
ErrorSeen(c) == req'[c].errors[Len(req'[c].errors)]
ReadsErrorBody(c, parses) ==
  /\ req[c].phase = "body" /\ req'[c] # req[c]
  /\ BodyRead(c).status \notin 200..299
  /\ BodyRead(c).json = parses
ChosenText(payload) ==
  IF "message" \in DOMAIN payload THEN payload["message"]
  ELSE IF "code" \in DOMAIN payload THEN payload["code"]
  ELSE JSONStringify(payload)

\* C24: for a non-success response whose body parses as JSON, the call fails
\* with a VisualpingApiError carrying the response status, the parsed payload,
\* and as its message the payload's message field if present, else its code
\* field, else the serialized payload.
C24_Original ==
  [][\A c \in Callers :
       ReadsErrorBody(c, TRUE) =>
         /\ Len(req'[c].errors) = Len(req[c].errors) + 1
         /\ ErrorSeen(c).name = "VisualpingApiError"
         /\ ErrorSeen(c).status = BodyRead(c).status
         /\ ErrorSeen(c).payload = <<BodyRead(c).body>>
         /\ ErrorSeen(c).message = ChosenText(BodyRead(c).body)]_vars

\* C24, amended: the same, with the message "Visualping API Error (<status>): "
\* followed by the chosen text.
C24_ClassifiedJsonError ==
  [][\A c \in Callers :
       ReadsErrorBody(c, TRUE) =>
         /\ Len(req'[c].errors) = Len(req[c].errors) + 1
         /\ ErrorSeen(c).name = "VisualpingApiError"
         /\ ErrorSeen(c).status = BodyRead(c).status
         /\ ErrorSeen(c).payload = <<BodyRead(c).body>>
         /\ ErrorSeen(c).message =
              "Visualping API Error (" \o ToString(BodyRead(c).status) \o "): "
                \o ChosenText(BodyRead(c).body)]_vars

\* A request failed on a 400 whose payload has neither message nor code.
C24_Witness ==
  \E c \in Callers : \E i \in DOMAIN req[c].errors :
    /\ req[c].phase = "done"
    /\ req[c].errors[i].status = 400
    /\ req[c].errors[i].payload = <<[detail |-> "bad url"]>>
    /\ req[c].errors[i].message = "Visualping API Error (400): {\"detail\":\"bad url\"}"

\* C25: for a non-success response whose body is not valid JSON, the call
\* fails with a VisualpingApiError that carries the response status and no
\* payload, so that a non-JSON 4xx response is classified by its status and is
\* not retried.
C25_NonJsonErrorClassified ==
  [][\A c \in Callers :
       ReadsErrorBody(c, FALSE) =>
         /\ Len(req'[c].errors) = Len(req[c].errors) + 1
         /\ ErrorSeen(c).name = "VisualpingApiError"
         /\ ErrorSeen(c).status = BodyRead(c).status
         /\ ErrorSeen(c).payload = <<>>
         /\ BodyRead(c).status \in 400..499 /\ BodyRead(c).status # 429 =>
              req'[c].phase = "done"]_vars

\* C26: the delay before the k-th retry of a request is 200 * 2^(k-1)
\* milliseconds, whatever k up to the number of retries allowed; a delay
\* follows every failed attempt but the one that ends the request, be it the
\* last attempt allowed or a terminal failure.
C26_BackoffDelays ==
  \A c \in Callers :
    /\ \A k \in DOMAIN req[c].waits : req[c].waits[k] = 200 * 2 ^ (k - 1)
    /\ Len(req[c].waits) <= req[c].retries
    /\ req[c].phase \in {"backoff", "fetch", "body"} =>
         Len(req[c].waits) = Len(req[c].errors)
    /\ req[c].phase = "done" /\ req[c].result.ok =>
         Len(req[c].waits) = Len(req[c].errors)
    /\ req[c].phase = "done" /\ ~req[c].result.ok /\ req[c].sent # <<>> =>
         Len(req[c].waits) = Len(req[c].errors) - 1

\* A request with 2 retries failed after 3 calls: it waited 200 ms, then 400 ms,
\* and not after its last attempt.
C26_Witness ==
  \E c \in Callers :
    /\ req[c].phase = "done" /\ ~req[c].result.ok
    /\ req[c].retries = 2 /\ Len(req[c].sent) = 3
    /\ req[c].waits = <<200, 400>>

\* C27: retries and backoff are local to one request.  While a request that
\* has failed at least once waits in backoff or retries, any other request can
\* take its next step: start and authenticate, resume after authentication,
\* receive its response, read the body and complete; and no step of one
\* request changes the record of another.
C27_RetriesAreLocal ==
  /\ [](\A d \in Callers :
          (\E c \in Callers \ {d} :
              req[c].phase \in {"backoff", "fetch", "body"} /\ req[c].errors # <<>>) =>
            /\ req[d].phase = "idle" =>
                 ENABLED authenticatedRequest(d, [headers |-> <<>>], DefaultRetries)
            /\ req[d].phase = "auth" /\ pc[d] = "idle" => ENABLED RequestResumes(d)
            /\ req[d].phase = "fetch" /\ ~MicrotaskPending =>
                 ENABLED TargetFetchSettles(d, [kind |-> "response", status |-> 200,
                                               json |-> TRUE, body |-> [page |-> "a"]])
            /\ req[d].phase = "body" /\ ~MicrotaskPending => ENABLED BodySettles(d))
  /\ [][\A c, d \in Callers : c # d /\ req'[c] # req[c] => req'[d] = req[d]]_vars

\* A request waits in backoff; another one, which authenticated after the
\* first was sent (it carries the access token stored now, the first does
\* not), has completed with one call.
C27_Witness ==
  \E c, d \in Callers :
    /\ c # d
    /\ req[c].phase = "backoff"
    /\ "Authorization" \notin DOMAIN req[c].sent[1].headers
    /\ req[d].phase = "done" /\ req[d].result.ok /\ Len(req[d].sent) = 1
    /\ "Authorization" \in DOMAIN req[d].sent[1].headers
    /\ idToken # Null /\ req[d].sent[1].headers["Authorization"] = "Bearer " \o idToken

\* C28: the access token is valid exactly when the token and its timestamp are
\* present and the token is younger than 23 hours (82800 s), the renewal token
\* exactly when token and timestamp are present and it is younger than 29 days
\* (2505600 s); at exactly that age either is invalid.  An operation renews
\* nothing exactly when both were valid at its start, and takes the password
\* flow exactly when the renewal token was not.
C28_ValidityPredicates ==
  /\ isIdTokenValid <=>
       (idToken # Null /\ lastIdTokenRefresh # NoDate /\ now - lastIdTokenRefresh < 82800)
  /\ isRefreshTokenValid <=>
       (refreshToken # Null /\ lastRefreshTokenRefresh # NoDate
          /\ now - lastRefreshTokenRefresh < 2505600)
  /\ lastIdTokenRefresh # NoDate /\ now - lastIdTokenRefresh = 82800 => ~isIdTokenValid
  /\ lastRefreshTokenRefresh # NoDate /\ now - lastRefreshTokenRefresh = 2505600 =>
       ~isRefreshTokenValid
  /\ \A k \in DOMAIN ops :
       LET s == ops[k].pre
           age == ops[k].t0 - s.lastIdTokenRefresh
           renewalAge == ops[k].t0 - s.lastRefreshTokenRefresh
           accessValid == s.idToken # Null /\ s.lastIdTokenRefresh # NoDate /\ age < 82800
           renewalValid == s.refreshToken # Null /\ s.lastRefreshTokenRefresh # NoDate
                             /\ renewalAge < 2505600
       IN /\ ops[k].flow = "NONE" <=> (accessValid /\ renewalValid)
          /\ ops[k].flow = "PASSWORD" <=> ~renewalValid

\* An operation started when the access token was exactly 23 hours old and
\* took the refresh-token flow.
C28_Witness ==
  \E k \in DOMAIN ops :
    /\ ops[k].pre.idToken # Null
    /\ ops[k].pre.lastIdTokenRefresh # NoDate
    /\ ops[k].t0 - ops[k].pre.lastIdTokenRefresh = 82800
    /\ ops[k].flow = "REFRESH_TOKEN"

\* An authentication call of the given flows succeeds in this step: its fetch
\* returned the tokens, or its closure resumes after the flow returned.
FlowSucceeds(flows) ==
  \E k \in DOMAIN ops \cap DOMAIN ops' :
    /\ ops[k].flow \in flows
    /\ ops[k].phase \in {"fetch", "flowReturned"}
    /\ ops'[k].phase \in {"flowReturned", "settled"}
    /\ ops'[k].phase # ops[k].phase
    /\ ops'[k].result.ok

\* C29: the renewal token and its timestamp change only in a step of a
\* successful primary flow, the access token and its timestamp only in a step
\* of a successful primary or secondary flow, and a step of the request
\* pipeline (start, send, transient failure, backoff, terminal failure)
\* changes none of the four.
C29_SessionFrame ==
  [][/\ refreshToken' # refreshToken \/ lastRefreshTokenRefresh' # lastRefreshTokenRefresh
          => FlowSucceeds({"PASSWORD"})
     /\ idToken' # idToken \/ lastIdTokenRefresh' # lastIdTokenRefresh
          => FlowSucceeds({"PASSWORD", "REFRESH_TOKEN"})
     /\ req' # req => session' = session]_vars

\* A request has failed on a 403 after it was sent with an access token; the
\* session still holds that token and a renewal token.
C29_Witness ==
  \E c \in Callers :
    /\ req[c].phase = "done" /\ ~req[c].result.ok
    /\ req[c].result.error.status = 403
    /\ idToken = "id_a" /\ refreshToken # Null
    /\ req[c].sent[1].headers["Authorization"] = "Bearer id_a"

\* The moves of a request between its phases: START is "idle", AUTH_CHECK is
\* "auth", SEND is "fetch" and "body", BACKOFF is "backoff", and "done" is
\* SUCCESS, FAILED or AUTH_FAILED by the result and the calls made.
LifecycleMoves ==
  {<<"idle", "auth">>, <<"auth", "fetch">>, <<"auth", "done">>,
   <<"fetch", "body">>, <<"fetch", "backoff">>, <<"fetch", "done">>,
   <<"body", "backoff">>, <<"body", "done">>, <<"backoff", "fetch">>}

\* C30: a request moves START -> AUTH_CHECK -> (AUTH_FAILED | SEND), from SEND
\* to SUCCESS, to FAILED, or through a transient failure to BACKOFF and from
\* there to SEND again, the latter only while retries remain; it makes at most
\* retries + 1 transport calls; and when every transport call completes, a
\* request that has started ends.
C30_RequestLifecycle ==
  /\ [][\A c \in Callers :
          /\ req'[c].phase # req[c].phase =>
               /\ <<req[c].phase, req'[c].phase>> \in LifecycleMoves
               /\ req[c].phase = "auth" /\ req'[c].phase = "done" =>
                    ~req'[c].result.ok /\ req'[c].sent = <<>>
               /\ req'[c].phase = "backoff" =>
                    /\ Len(req'[c].errors) = Len(req[c].errors) + 1
                    /\ Len(req'[c].errors) <= req[c].retries
          /\ Sends(c) => req[c].phase \in {"auth", "backoff"} /\ req'[c].phase = "fetch"
          /\ req[c].phase = "done" => req'[c] = req[c]]_vars
  /\ [](\A c \in Callers : Len(req[c].sent) <= req[c].retries + 1)
  /\ \A c \in Callers : (req[c].phase # "idle") ~> (req[c].phase = "done")

\* A request with 2 retries succeeded on its third and last call, after two
\* backoffs.
C30_Witness ==
  \E c \in Callers :
    /\ req[c].phase = "done" /\ req[c].result.ok
    /\ req[c].retries = 2 /\ Len(req[c].sent) = 3 /\ Len(req[c].waits) = 2

\* ------------------------------------------------------------------ C31..C36

\* C31: a transport call of authenticatedRequest that is aborted by the
\* timeout is not retried: the error has status 408, the request ends with it,
\* and the aborted call is its last; when the first call is aborted the request
\* has made exactly one call, even with retries left.
C31_TimeoutNotRetried ==
  \A c \in Callers : \A i \in DOMAIN req[c].fetched :
    req[c].fetched[i] = "abort" =>
      /\ req[c].errors[i].status = 408
      /\ req[c].phase = "done" /\ ~req[c].result.ok
      /\ req[c].result.error = req[c].errors[i]
      /\ Len(req[c].sent) = i
      /\ Len(req[c].waits) = i - 1

\* The first call of a request with 2 retries was aborted by the timeout, and
\* the request has ended after that one call.
C31_Witness ==
  \E c \in Callers :
    /\ req[c].retries = 2
    /\ req[c].fetched = <<"abort">>
    /\ req[c].phase = "done" /\ Len(req[c].sent) = 1

\* C32: every transport call of a request, which is made only after
\* ensureAuthenticated succeeded for it, carries an Authorization header; and
\* no access token that isIdTokenValid accepts is one for which the header is
\* left out.
C32_ValidTokenHasHeader ==
  /\ \A c \in Callers : \A i \in DOMAIN req[c].sent :
       "Authorization" \in DOMAIN req[c].sent[i].headers
  /\ isIdTokenValid => "Authorization" \in DOMAIN authenticatedRequestHeaders(<<>>)

\* The refresh-token flow of operation k fails in this step.
RefreshFails(k) ==
  /\ ops[k].flow = "REFRESH_TOKEN" /\ ops[k].phase = "fetch"
  /\ ops'[k].phase = "settled" /\ ~ops'[k].result.ok

\* C33: a failed refresh-token flow leaves the session as it was, with the
\* renewal token in place and the access token invalid; the access token
\* becomes valid again only through a flow that succeeds, and the renewal
\* token changes only through a password flow that succeeds; and every
\* operation started while the renewal token is younger than 29 days and the
\* access token is invalid takes the refresh-token flow with the stored
\* renewal token, never the password flow.
C33_RefreshFailureRepeats ==
  /\ [][\A k \in DOMAIN ops \cap DOMAIN ops' :
          RefreshFails(k) =>
            /\ session' = session
            /\ refreshToken' = ops[k].pre.refreshToken
            /\ ~AccessValidAt(session', now')]_vars
  /\ [][/\ ~AccessValidAt(session, now) /\ AccessValidAt(session', now') =>
            \E k \in DOMAIN ops \cap DOMAIN ops' :
              /\ ops[k].flow # "NONE" /\ ops'[k].result.ok
              /\ ops'[k].phase # ops[k].phase
        /\ refreshToken' # refreshToken =>
            \E k \in DOMAIN ops \cap DOMAIN ops' :
              /\ ops[k].flow = "PASSWORD" /\ ops'[k].result.ok
              /\ ops'[k].phase # ops[k].phase]_vars
  /\ [](\A k \in DOMAIN ops :
          /\ ops[k].pre.refreshToken # Null
          /\ ops[k].pre.lastRefreshTokenRefresh # NoDate
          /\ ops[k].t0 - ops[k].pre.lastRefreshTokenRefresh < 29 * 24 * 60 * 60
          /\ ~AccessValidAt(ops[k].pre, ops[k].t0)
          => /\ ops[k].flow = "REFRESH_TOKEN"
             /\ ops[k].sent[1].body.method = "REFRESH_TOKEN"
             /\ ops[k].sent[1].body.refreshToken = ops[k].pre.refreshToken)

\* A refresh-token flow has failed, and an operation started after it is
\* taking the refresh-token flow with the same renewal token.
C33_Witness ==
  \E j, k \in DOMAIN ops :
    /\ j # k
    /\ ops[j].flow = "REFRESH_TOKEN" /\ ops[j].phase = "settled" /\ ~ops[j].result.ok
    /\ ops[j].cleared
    /\ ops[k].flow = "REFRESH_TOKEN" /\ ops[k].phase = "fetch"
    /\ ops[k].sent[1].body.refreshToken = ops[j].pre.refreshToken

\* C34: the marker is set only when it was empty, by the call that starts an
\* operation; it is emptied only in the step in which the creator of the
\* marked operation resumes, after that operation settled and before it was
\* ever cleared; a call that joined an operation leaves the marker as it is
\* when it resumes; and an operation is marked cleared in no other step.
C34_OnlyCreatorClears ==
  [][/\ authInFlight' # authInFlight /\ authInFlight # NoPromise =>
          LET k == authInFlight
          IN /\ authInFlight' = NoPromise
             /\ ops[k].phase = "settled" /\ ~ops[k].cleared
             /\ callOp[ops[k].creator] = k
             /\ Resolves(ops[k].creator)
             /\ \A c \in Callers \ {ops[k].creator} : pc'[c] = pc[c]
     /\ authInFlight' # authInFlight /\ authInFlight = NoPromise =>
          \E c \in Callers :
            /\ Issues(c)
            /\ callOp'[c] = authInFlight'
            /\ ops'[authInFlight'].creator = c
            /\ ~ops'[authInFlight'].cleared
     /\ \A c \in Callers :
          Resolves(c) /\ ops[callOp[c]].creator # c => authInFlight' = authInFlight
     /\ \A k \in DOMAIN ops \cap DOMAIN ops' :
          /\ ops[k].cleared /\ ops'[k].creator = ops[k].creator /\ ops'[k].t0 = ops[k].t0
               /\ ops'[k].cleared => authInFlight' # k
          /\ ~ops[k].cleared /\ ops'[k].cleared => authInFlight = k]_vars

\* A call that joined an operation is still to resume while the creator of
\* that operation, having cleared the marker, has already started a later
\* operation, which the marker names.
C34_Witness ==
  \E c, d \in Callers :
    /\ c # d
    /\ pc[d] = "awaiting" /\ ops[callOp[d]].cleared /\ ops[callOp[d]].creator = c
    /\ pc[c] = "awaiting" /\ callOp[c] = authInFlight
    /\ authInFlight # callOp[d]
    /\ ops[authInFlight].creator = c /\ ~ops[authInFlight].cleared

\* The jobs of a sequence of pages, in page order.
RECURSIVE JobsOf(_)
JobsOf(pages) == IF pages = <<>> THEN <<>> ELSE pages[1].jobs \o JobsOf(Tail(pages))

\* C35: getAllJobs calls getJobs for pageIndex 0, 1, 2, ... one after the
\* other, at least once; it asks for a further page only while its index is
\* below the totalPages of the page received last; it returns the jobs of all
\* pages received, in page order, once the next index is not below that
\* totalPages; when a call of getJobs fails it makes no further call and
\* rejects with that error, returning no jobs; and it makes at most as many
\* calls as the largest totalPages reported, or one.
C35_GetAllJobs ==
  bulk.op = "getAllJobs" =>
    LET calls == bulk.calls
        pages == bulk.pages
    IN /\ Len(calls) >= 1
       /\ \A i \in DOMAIN calls : calls[i] = i - 1
       /\ \A i \in DOMAIN calls : i >= 2 => calls[i] < pages[i - 1].totalPages
       /\ Len(calls) <= IF MaxPages > 1 THEN MaxPages ELSE 1
       /\ bulk.phase = "waiting" => Len(pages) = Len(calls) - 1
       /\ bulk.phase = "done" /\ bulk.result.ok =>
            /\ Len(pages) = Len(calls)
            /\ Len(calls) >= pages[Len(pages)].totalPages
            /\ bulk.result.value = JobsOf(pages)
       /\ bulk.phase = "done" /\ ~bulk.result.ok =>
            /\ Len(pages) = Len(calls) - 1
            /\ "value" \notin DOMAIN bulk.result
            /\ bulk.result.error = req[BulkCaller].result.error
            /\ req[BulkCaller].phase = "done"

\* getAllJobs returned the jobs of three pages in page order.
C35_Witness ==
  /\ bulk.op = "getAllJobs" /\ bulk.phase = "done" /\ bulk.result.ok
  /\ bulk.calls = <<0, 1, 2>>
  /\ bulk.result.value = <<"j1", "j2", "j3", "j1">>

\* C36: pauseJobs calls updateJob for the jobs of its list in list order, one
\* at a time, each call being a call of authenticatedRequest with the default
\* retries that sets active to false; when an update fails pauseJobs rejects
\* with that error: the jobs before it are paused and stay so, and no update
\* is sent for the jobs after it; when none fails all jobs have been paused.
C36_PauseJobs ==
  bulk.op = "pauseJobs" =>
    LET calls == bulk.calls
        rq == req[BulkCaller]
    IN /\ Len(calls) <= Len(bulk.jobIds)
       /\ \A i \in DOMAIN calls : calls[i] = bulk.jobIds[i]
       /\ bulk.paused \subseteq {calls[i] : i \in DOMAIN calls}
       /\ \A i \in DOMAIN calls : i < Len(calls) => calls[i] \in bulk.paused
       /\ calls # <<>> =>
            /\ rq.options.jobId = calls[Len(calls)]
            /\ rq.options.method = "PUT" /\ rq.options.body = [active |-> FALSE]
            /\ rq.retries = 2 /\ rq.authCalls = 1
       /\ bulk.phase = "waiting" => calls # <<>>
       /\ bulk.phase = "done" /\ bulk.result.ok =>
            /\ Len(calls) = Len(bulk.jobIds)
            /\ \A i \in DOMAIN bulk.jobIds : bulk.jobIds[i] \in bulk.paused
       /\ bulk.phase = "done" /\ ~bulk.result.ok =>
            /\ rq.phase = "done" /\ bulk.result.error = rq.result.error

\* The second of three updates failed after its retries: the first job is
\* paused, and no update was sent for the third.
C36_Witness ==
  /\ bulk.op = "pauseJobs" /\ bulk.phase = "done" /\ ~bulk.result.ok
  /\ bulk.jobIds = <<456, 123, 789>>
  /\ bulk.calls = <<456, 123>>
  /\ bulk.paused = {456}
  /\ Len(req[BulkCaller].sent) = 3

====
